---- MODULE Spec2Model ----
(***************************************************************************)
(* A model of myst_parser/html_renderer.py: the HTMLRenderer fragment      *)
(* rules, the code-fence/directive dispatch, the document assembly and the *)
(* process-wide html._charref patch applied by HTMLRenderer.__init__.      *)
(*                                                                         *)
(* Python str values are TLA+ strings; TLC evaluates Len, SubSeq and \o on *)
(* them, so every rule builds the very text the code builds.               *)
(***************************************************************************)
EXTENDS Naturals, Sequences, FiniteSets, TLC

(***************************************************************************)
(* Bounds of the model.                                                    *)
(***************************************************************************)
\* pieces concatenated into one token text field
MaxPieces == 2
\* pieces concatenated into the content of a math token
MaxMathPieces == 3
\* children of a document token
MaxChildren == 2

(***************************************************************************)
(* str helpers.                                                            *)
(***************************************************************************)
CharAt(s, i) == SubSeq(s, i, i)

startswith(s, p) == Len(s) >= Len(p) /\ SubSeq(s, 1, Len(p)) = p

\* str.rstrip(): trailing whitespace removed
RECURSIVE rstrip(_)
rstrip(s) ==
    IF Len(s) > 0 /\ CharAt(s, Len(s)) \in {" ", "\n", "\t", "\r", "\f"}
    THEN rstrip(SubSeq(s, 1, Len(s) - 1))
    ELSE s

\* the positions of s at which an occurrence of sub begins
Occurrences(sub, s) ==
    {i \in 1..(Len(s) + 1 - Len(sub)) :
         /\ CharAt(s, i) = CharAt(sub, 1)
         /\ SubSeq(s, i, i + Len(sub) - 1) = sub}

\* the number of occurrences of sub in s (no sub of the model overlaps itself)
Count(sub, s) == Cardinality(Occurrences(sub, s))

Contains(sub, s) == Occurrences(sub, s) # {}

\* index of the first occurrence of sub in s at or after i, 0 when there is none
FindFrom(sub, s, i) ==
    LET at == {j \in Occurrences(sub, s) : j >= i}
    IN  IF at = {} THEN 0 ELSE CHOOSE j \in at : \A k \in at : j <= k

\* str.replace(old, new)
RECURSIVE ReplaceFrom(_, _, _, _)
ReplaceFrom(s, old, new, i) ==
    IF i > Len(s) THEN ""
    ELSE IF i + Len(old) - 1 <= Len(s) /\ SubSeq(s, i, i + Len(old) - 1) = old
         THEN new \o ReplaceFrom(s, old, new, i + Len(old))
         ELSE CharAt(s, i) \o ReplaceFrom(s, old, new, i + 1)

replace(s, old, new) == ReplaceFrom(s, old, new, 1)

\* sep.join(parts)
RECURSIVE join(_, _)
join(sep, parts) ==
    IF Len(parts) = 0 THEN ""
    ELSE IF Len(parts) = 1 THEN parts[1]
    ELSE parts[1] \o sep \o join(sep, Tail(parts))

(***************************************************************************)
(* The process-wide character-reference pattern, html._charref: the        *)
(* pattern of the standard library and the one __init__ installs.          *)
(***************************************************************************)
StdlibCharref == "&(#[0-9]+;?|#[xX][0-9a-fA-F]+;?|[^\\t\\n\\f <&#;]{1,32};?)"

PatchedCharref == "&(#[0-9]+;|#[xX][0-9a-fA-F]+;|[^\\t\\n\\f <&#;]{1,32};)"

\* the longest name a character reference may have: {1,32} in both patterns
CharrefNameMax == 32

\* the characters the named alternative [^\t\n\f <&#;] excludes
NotNameChar == {"\t", "\n", "\f", " ", "<", "&", "#", ";"}

\* html.entities.html5 restricted to the references html.escape produces;
\* each is defined with and without its semicolon
Html5Names == {"amp;", "amp", "lt;", "lt", "gt;", "gt", "quot;", "quot"}

Html5(name) ==
    CASE name \in {"amp;", "amp"} -> "&"
      [] name \in {"lt;", "lt"} -> "<"
      [] name \in {"gt;", "gt"} -> ">"
      [] name \in {"quot;", "quot"} -> "\""

\* length of the run of name characters of s starting at i, at most max
RECURSIVE NameRun(_, _, _)
NameRun(s, i, max) ==
    IF max = 0 \/ i > Len(s) \/ CharAt(s, i) \in NotNameChar THEN 0
    ELSE 1 + NameRun(s, i + 1, max - 1)

\* html._replace_charref for a named reference: the whole name, else the
\* longest prefix of two characters or more that html5 defines, else as is
RECURSIVE LongestPrefix(_, _)
LongestPrefix(name, x) ==
    IF x <= 1 THEN "&" \o name
    ELSE IF SubSeq(name, 1, x) \in Html5Names
         THEN Html5(SubSeq(name, 1, x)) \o SubSeq(name, x + 1, Len(name))
         ELSE LongestPrefix(name, x - 1)

_replace_charref(name) ==
    IF name \in Html5Names THEN Html5(name)
    ELSE LongestPrefix(name, Len(name) - 1)

\* the length of the named reference pattern `charref` matches after the "&"
\* at position i of s, 0 when it matches none.  The numeric alternatives
\* are not modelled: no text of the model holds a "#".
CharrefMatch(charref, s, i) ==
    LET run == NameRun(s, i + 1, CharrefNameMax)
        semi == i + run + 1 <= Len(s) /\ CharAt(s, i + run + 1) = ";"
    IN  IF run = 0 THEN 0
        ELSE IF semi THEN run + 1
        ELSE IF charref = PatchedCharref THEN 0
        ELSE run

\* html.unescape(s): _charref.sub(_replace_charref, s) under the pattern
\* html._charref holds when it is called
RECURSIVE UnescapeFrom(_, _, _)
UnescapeFrom(charref, s, i) ==
    IF i > Len(s) THEN ""
    ELSE IF CharAt(s, i) = "&" /\ CharrefMatch(charref, s, i) > 0
         THEN LET n == CharrefMatch(charref, s, i)
              IN  _replace_charref(SubSeq(s, i + 1, i + n))
                      \o UnescapeFrom(charref, s, i + n + 1)
         ELSE CharAt(s, i) \o UnescapeFrom(charref, s, i + 1)

html_unescape(charref, s) == UnescapeFrom(charref, s, 1)

\* html.escape(s, quote=True)
EscapeChar(c) ==
    CASE c = "&" -> "&amp;"
      [] c = "<" -> "&lt;"
      [] c = ">" -> "&gt;"
      [] c = "\"" -> "&quot;"
      [] c = "'" -> "&#x27;"
      [] OTHER -> c

RECURSIVE EscapeFrom(_, _)
EscapeFrom(s, i) ==
    IF i > Len(s) THEN "" ELSE EscapeChar(CharAt(s, i)) \o EscapeFrom(s, i + 1)

html_escape(s) == EscapeFrom(s, 1)

\* mistletoe's HTMLRenderer.escape_html, inherited:
\* html.escape(html.unescape(raw)).replace('&#x27;', '&#39;')
escape_html(charref, raw) ==
    replace(html_escape(html_unescape(charref, raw)), "&#x27;", "&#39;")

(***************************************************************************)
(* Optional values (None or a value) and the result of a render call: the  *)
(* string returned, the methods and capabilities called on the way, and    *)
(* the exception raised, if any.                                           *)
(***************************************************************************)
None == <<>>

Some(v) == <<v>>

Ok(html, calls) == [html |-> html, calls |-> calls, exc |-> "none"]

Raised(exc, calls) == [html |-> "", calls |-> calls, exc |-> exc]

(***************************************************************************)
(* The external capabilities and assets.                                   *)
(***************************************************************************)
\* the languages the highlighting capability may have a lexer for
Lexers == {"python", "yaml"}

\* what the capability may hold of the languages a call can ask it for
LexersFor(languages) == SUBSET (Lexers \cap languages)

\* pygments.highlight(code, lexer, HtmlFormatter()): the formatter's wrapper
\* around the escaped code, ending with a line break
highlight(code) ==
    "<div class=\"highlight\"><pre><span></span>" \o html_escape(code)
        \o "\n</pre></div>\n"

\* ClassNotFound from get_lexer_by_name becomes None
pygments_highlight(code, language, lexers) ==
    IF language \in lexers THEN Some(highlight(code)) ELSE None

\* HtmlFormatter().get_style_defs(".highlight")
get_pygments_css == ".highlight .k { color: #008000 }"

\* the bundled static/myst_standalone.css
get_syntax_css == ".myst-directive { background: #eee }"

MATHJAX ==
    "<script src=\"https://cdnjs.cloudflare.com/ajax/libs/mathjax/2.7.0/MathJax.js"
        \o "?config=TeX-MML-AM_CHTML\"></script>\n"

\* minimal_html_page with the two slots of the template filled the wrong
\* way round
minimal_html_page_swapped(body, css) ==
    "<!DOCTYPE html>\n"
        \o "<html lang=\"en\">\n"
        \o "\n"
        \o "<head>\n"
        \o "<meta charset=\"utf-8\">\n"
        \o "<title>Standalone HTML</title>\n"
        \o "<style>\n"
        \o body \o "\n"
        \o "</style>\n"
        \o "</head>\n"
        \o "<body>\n"
        \o css \o "\n"
        \o "</body>\n"
        \o "</html>\n"

minimal_html_page(body, css) ==
    "<!DOCTYPE html>\n"
        \o "<html lang=\"en\">\n"
        \o "\n"
        \o "<head>\n"
        \o "<meta charset=\"utf-8\">\n"
        \o "<title>Standalone HTML</title>\n"
        \o "<style>\n"
        \o css \o "\n"
        \o "</style>\n"
        \o "</head>\n"
        \o "<body>\n"
        \o body \o "\n"
        \o "</body>\n"
        \o "</html>\n"

(***************************************************************************)
(* Tokens.                                                                 *)
(***************************************************************************)
RawText(content) == [type |-> "RawText", content |-> content]

LineComment(content, raw) ==
    [type |-> "LineComment", content |-> content, raw |-> raw]

BlockBreak(content) == [type |-> "BlockBreak", content |-> content]

Target(target) == [type |-> "Target", target |-> target]

Role(name, content) ==
    [type |-> "Role", name |-> name, children |-> <<RawText(content)>>]

Math(content) == [type |-> "Math", content |-> content]

FrontMatter(content) == [type |-> "FrontMatter", content |-> content]

CodeFence(language, arguments, content) ==
    [type |-> "CodeFence", language |-> language, arguments |-> arguments,
     children |-> <<RawText(content)>>]

Document(children) == [type |-> "Document", children |-> children]

(***************************************************************************)
(* The fragment rules.  self is the renderer (its configuration), env the  *)
(* process state a call reads: html._charref and the lexers installed.     *)
(***************************************************************************)
\* mistletoe's render_raw_text, inherited
render_raw_text(token, env) == escape_html(env.charref, token.content)

\* mistletoe's render_block_code, inherited: the plain <pre><code> rule
super_render_block_code(token, env) ==
    LET attr == IF token.language # ""
                THEN " class=\"language-"
                         \o escape_html(env.charref, token.language) \o "\""
                ELSE ""
    IN  "<pre><code" \o attr \o ">" \o html_escape(token.children[1].content)
            \o "</code></pre>"

\* render_block_code falling back only when there is no language and no
\* highlighting: `and` for `or` in its first test
render_block_code_and(self, token, env) ==
    IF token.language = "" /\ ~self.use_pygments
    THEN Ok(super_render_block_code(token, env), <<"render_block_code">>)
    ELSE LET highlighted ==
                 pygments_highlight(token.children[1].content, token.language,
                                    env.lexers)
             calls == <<"render_block_code", "pygments_highlight">>
         IN  IF highlighted = None
             THEN Ok(super_render_block_code(token, env), calls)
             ELSE Ok(join("\n", <<"<div class=\"highlight-" \o token.language
                                      \o "\">",
                                  rstrip(highlighted[1]),
                                  "</div>">>),
                     calls)

render_block_code(self, token, env) ==
    IF token.language = "" \/ ~self.use_pygments
    THEN Ok(super_render_block_code(token, env), <<"render_block_code">>)
    ELSE LET highlighted ==
                 pygments_highlight(token.children[1].content, token.language,
                                    env.lexers)
             calls == <<"render_block_code", "pygments_highlight">>
         IN  IF highlighted = None
             THEN Ok(super_render_block_code(token, env), calls)
             ELSE Ok(join("\n", <<"<div class=\"highlight-" \o token.language
                                      \o "\">",
                                  rstrip(highlighted[1]),
                                  "</div>">>),
                     calls)

render_directive(self, token, env) ==
    Ok("<div class=\"myst-directive\">"
           \o "&#39;&#39;&#39;"
           \o "<span class=\"myst-dir-name\">" \o token.language \o "</span>&nbsp\n"
           \o "<span class=\"myst-dir-args\">" \o token.arguments \o "</span>\n"
           \o "<span class=\"myst-dir-content\"><pre><code>"
           \o token.children[1].content \o "</code></pre></span>\n"
           \o "&#39;&#39;&#39;"
           \o "</div>",
       <<"render_directive">>)

\* a call made from within another: the callee's result, the caller's name
\* first in the calls
Via(name, r) == [r EXCEPT !.calls = <<name>> \o r.calls]

\* render_code_fence looking for the brace anywhere in the tag
render_code_fence_anywhere(self, token, env) ==
    IF token.language # "" /\ Contains("{", token.language)
    THEN Via("render_code_fence", render_directive(self, token, env))
    ELSE Via("render_code_fence", render_block_code(self, token, env))

render_code_fence(self, token, env) ==
    IF token.language # "" /\ startswith(token.language, "{")
    THEN Via("render_code_fence", render_directive(self, token, env))
    ELSE Via("render_code_fence", render_block_code(self, token, env))

render_front_matter(self, token, env) ==
    IF ~self.show_front_matter THEN Ok("", <<"render_front_matter">>)
    ELSE IF self.use_pygments
    THEN LET highlighted == pygments_highlight(token.content, "yaml", env.lexers)
             calls == <<"render_front_matter", "pygments_highlight">>
         IN  IF highlighted = None
             THEN \* None.rstrip()
                  Raised("AttributeError", calls)
             ELSE Ok("<div class=\"highlight-yaml myst-front-matter\">\n"
                         \o rstrip(highlighted[1]) \o "\n</div>",
                     calls)
    ELSE Ok("<div class=\"myst-front-matter\">"
                \o "<pre><code class=\"language-yaml\">"
                \o escape_html(env.charref, token.content)
                \o "</code></pre>"
                \o "</div>",
            <<"render_front_matter">>)

\* render_line_comment showing the stripped content, not the line
render_line_comment_content(self, token, env) ==
    IF ~self.show_comments
    THEN Ok("<!-- " \o escape_html(env.charref, token.content) \o " -->",
            <<"render_line_comment">>)
    ELSE Ok("<div class=\"myst-block-comment\"><p>"
                \o escape_html(env.charref, token.content) \o "</p></div>",
            <<"render_line_comment">>)

render_line_comment(self, token, env) ==
    IF ~self.show_comments
    THEN Ok("<!-- " \o escape_html(env.charref, token.content) \o " -->",
            <<"render_line_comment">>)
    ELSE Ok("<div class=\"myst-block-comment\"><p>"
                \o escape_html(env.charref, token.raw) \o "</p></div>",
            <<"render_line_comment">>)

render_block_break(self, token, env) ==
    Ok("<!-- myst-block-data " \o escape_html(env.charref, token.content)
           \o " -->\n<hr class=\"myst-block-break\" />",
       <<"render_block_break">>)

\* render_target escaping the escaped target once more
render_target_twice(self, token, env) ==
    LET t == html_escape(escape_html(env.charref, token.target))
    IN  Ok("<a class=\"myst-target\" href=\"#" \o t
               \o "\" title=\"Permalink to here\">(" \o t \o ")=</a>",
           <<"render_target">>)

render_target(self, token, env) ==
    LET t == escape_html(env.charref, token.target)
    IN  Ok("<a class=\"myst-target\" href=\"#" \o t
               \o "\" title=\"Permalink to here\">(" \o t \o ")=</a>",
           <<"render_target">>)

render_role(self, token, env) ==
    Ok("<span class=\"myst-role\">"
           \o "<span class=\"myst-role-name\">{" \o token.name \o "}</span>"
           \o "<span class=\"myst-role-content\">&#39;"
           \o render_raw_text(token.children[1], env) \o "&#39;</span>"
           \o "</span>",
       <<"render_role">>)

\* render_math taking one leading dollar for two
render_math_single_dollar(self, token, env) ==
    IF startswith(token.content, "$")
    THEN Ok(render_raw_text(token, env), <<"render_math">>)
    ELSE Ok("$" \o render_raw_text(token, env) \o "$", <<"render_math">>)

render_math(self, token, env) ==
    IF startswith(token.content, "$$")
    THEN Ok(render_raw_text(token, env), <<"render_math">>)
    ELSE Ok("$" \o render_raw_text(token, env) \o "$", <<"render_math">>)

(***************************************************************************)
(* Dispatch and the document rule.                                         *)
(***************************************************************************)
\* the renders of a token's children so far: r the render of one child,
\* rest those of the children after it, which a raise in r leaves undone
NoRenders == [htmls |-> <<>>, calls |-> <<>>, exc |-> "none"]

Then(r, rest) ==
    IF r.exc # "none" THEN [htmls |-> <<>>, calls |-> r.calls, exc |-> r.exc]
    ELSE [htmls |-> <<r.html>> \o rest.htmls,
          calls |-> r.calls \o rest.calls,
          exc |-> rest.exc]

\* sep.join(...) of the renders rs, made by the rule `name`
Joined(name, sep, rs) ==
    IF rs.exc # "none" THEN Raised(rs.exc, <<name>> \o rs.calls)
    ELSE Ok(join(sep, rs.htmls), <<name>> \o rs.calls)

\* BaseRenderer.render for the block tokens of a document: the render_map
\* entry of the token's class
render(self, token, env) ==
    CASE token.type = "FrontMatter" -> render_front_matter(self, token, env)
      [] token.type = "CodeFence" -> render_code_fence(self, token, env)
      [] token.type = "LineComment" -> render_line_comment(self, token, env)
      [] token.type = "BlockBreak" -> render_block_break(self, token, env)

\* [self.render(child) for child in token.children], from child i on
RECURSIVE RenderChildren(_, _, _, _)
RenderChildren(self, children, env, i) ==
    IF i > Len(children) THEN NoRenders
    ELSE Then(render(self, children[i], env),
              RenderChildren(self, children, env, i + 1))

\* mistletoe's render_document, inherited: the children's renders joined by
\* line breaks, and a final line break unless there is nothing
WithLineBreak(r) ==
    IF r.exc = "none" /\ r.html # "" THEN [r EXCEPT !.html = @ \o "\n"] ELSE r

super_render_document(self, token, env) ==
    WithLineBreak(Joined("render_document", "\n",
                         RenderChildren(self, token.children, env, 1)))

\* render_document putting the script reference before the body
Assemble_script_first(self, sup) ==
    LET body == IF self.add_mathjax THEN MATHJAX \o sup.html ELSE sup.html
        css == IF self.myst_css = None THEN get_syntax_css ELSE self.myst_css[1]
        css_calls == IF self.myst_css = None THEN <<"get_syntax_css">> ELSE <<>>
        pyg == IF self.pygments_css = None THEN get_pygments_css
               ELSE self.pygments_css[1]
        pyg_calls == IF self.use_pygments /\ self.pygments_css = None
                     THEN <<"get_pygments_css">> ELSE <<>>
    IN  IF sup.exc # "none" THEN sup
        ELSE IF ~self.as_standalone THEN Ok(body, sup.calls)
        ELSE Ok(minimal_html_page(body,
                                  IF self.use_pygments THEN css \o pyg ELSE css),
                sup.calls \o css_calls \o pyg_calls \o <<"minimal_html_page">>)

\* render_document appending the pygments CSS whatever use_pygments says
Assemble_always_pygments(self, sup) ==
    LET body == IF self.add_mathjax THEN sup.html \o MATHJAX ELSE sup.html
        css == IF self.myst_css = None THEN get_syntax_css ELSE self.myst_css[1]
        css_calls == IF self.myst_css = None THEN <<"get_syntax_css">> ELSE <<>>
        pyg == IF self.pygments_css = None THEN get_pygments_css
               ELSE self.pygments_css[1]
        pyg_calls == IF self.pygments_css = None
                     THEN <<"get_pygments_css">> ELSE <<>>
    IN  IF sup.exc # "none" THEN sup
        ELSE IF ~self.as_standalone THEN Ok(body, sup.calls)
        ELSE Ok(minimal_html_page(body, css \o pyg),
                sup.calls \o css_calls \o pyg_calls \o <<"minimal_html_page">>)

\* render_document once super().render_document(token) has returned sup
Assemble(self, sup) ==
    LET body == IF self.add_mathjax THEN sup.html \o MATHJAX ELSE sup.html
        css == IF self.myst_css = None THEN get_syntax_css ELSE self.myst_css[1]
        css_calls == IF self.myst_css = None THEN <<"get_syntax_css">> ELSE <<>>
        pyg == IF self.pygments_css = None THEN get_pygments_css
               ELSE self.pygments_css[1]
        pyg_calls == IF self.use_pygments /\ self.pygments_css = None
                     THEN <<"get_pygments_css">> ELSE <<>>
    IN  IF sup.exc # "none" THEN sup
        ELSE IF ~self.as_standalone THEN Ok(body, sup.calls)
        ELSE Ok(minimal_html_page(body,
                                  IF self.use_pygments THEN css \o pyg ELSE css),
                sup.calls \o css_calls \o pyg_calls \o <<"minimal_html_page">>)

render_document(self, token, env) ==
    Assemble(self, super_render_document(self, token, env))

(***************************************************************************)
(* Construction.                                                           *)
(***************************************************************************)
\* __init__ assigning the saved pattern back to html._charref
HTMLRenderer_restores(args, charref) ==
    [self |-> [add_mathjax |-> args.add_mathjax,
               show_comments |-> args.show_comments,
               show_front_matter |-> args.show_front_matter,
               use_pygments |-> args.use_pygments,
               as_standalone |-> args.as_standalone,
               myst_css |-> args.myst_css,
               pygments_css |-> args.pygments_css,
               _stdlib_charref |-> charref],
     charref |-> charref]

\* HTMLRenderer.__init__: the renderer constructed and the html._charref it
\* leaves behind
HTMLRenderer(args, charref) ==
    [self |-> [add_mathjax |-> args.add_mathjax,
               show_comments |-> args.show_comments,
               show_front_matter |-> args.show_front_matter,
               use_pygments |-> args.use_pygments,
               as_standalone |-> args.as_standalone,
               myst_css |-> args.myst_css,
               pygments_css |-> args.pygments_css,
               _stdlib_charref |-> charref],
     charref |-> PatchedCharref]

(***************************************************************************)
(* The inputs of the model.                                                *)
(***************************************************************************)
\* the concatenations of at most n of the pieces
RECURSIVE Texts(_, _)
Texts(pieces, n) ==
    IF n = 0 THEN {""}
    ELSE LET shorter == Texts(pieces, n - 1)
         IN  shorter \cup {t \o p : t \in shorter, p \in pieces}

CustomCss == "p { margin: 0 }"

CustomPygmentsCss == ".highlight  { background: #f8f8f8; }"

Configs ==
    [add_mathjax : BOOLEAN, show_comments : BOOLEAN,
     show_front_matter : BOOLEAN, use_pygments : BOOLEAN,
     as_standalone : BOOLEAN, myst_css : {None, Some(CustomCss)},
     pygments_css : {None, Some(CustomPygmentsCss)}]

TokenTexts == Texts({"&", "amp", "amp;", "<"}, MaxPieces)

MathTexts == Texts({"$", "a=1", "&"}, MaxMathPieces)

CodeTexts == Texts({"<body>", "&"}, MaxPieces)

Languages == {"", "python", "{name}", "c{"}

Arguments == {"", "arg"}

RoleNames == {"name", "n&"}

\* the line of a comment: its marker, then its content
CommentMarkers == {"%", "% "}

LineComments ==
    {LineComment(c, m \o c) : c \in TokenTexts, m \in CommentMarkers}

CodeFences ==
    {CodeFence(l, a, c) : l \in Languages, a \in Arguments, c \in CodeTexts}

\* the block tokens the documents of the model are made of
DocBlocks ==
    {FrontMatter("a: 1"), CodeFence("{name}", "arg", "<body>"),
     CodeFence("python", "", "x < 1")}

RECURSIVE SeqsUpTo(_, _)
SeqsUpTo(S, n) ==
    IF n = 0 THEN {<<>>}
    ELSE LET shorter == SeqsUpTo(S, n - 1)
         IN  shorter \cup {Append(q, x) : q \in shorter, x \in S}

Documents == {Document(c) : c \in SeqsUpTo(DocBlocks, MaxChildren)}

(***************************************************************************)
(* The state machine.                                                      *)
(***************************************************************************)
VARIABLES
    html_charref,   \* html._charref, process-wide
    self,           \* the renderer constructed last: None or Some(renderer)
    pc,             \* "idle", or "done" once a render call has returned
    op,             \* the rule called
    token,          \* the token it was called on: None or Some(token)
    lexers,         \* the lexers the highlighting capability had
    result          \* what the call returned or raised

vars == <<html_charref, self, pc, op, token, lexers, result>>

Init ==
    /\ html_charref = StdlibCharref
    /\ self = None
    /\ pc = "idle"
    /\ op = ""
    /\ token = None
    /\ lexers = {}
    /\ result = Ok("", <<>>)

Env(lx) == [charref |-> html_charref, lexers |-> lx]

Called(name, tok, lx, r) ==
    /\ pc' = "done"
    /\ op' = name
    /\ token' = Some(tok)
    /\ lexers' = lx
    /\ result' = r
    /\ UNCHANGED <<html_charref, self>>

Ready == pc = "idle" /\ self # None

Construct ==
    /\ pc = "idle"
    /\ \E args \in Configs :
           LET new == HTMLRenderer(args, html_charref)
           IN  /\ self' = Some(new.self)
               /\ html_charref' = new.charref
    /\ UNCHANGED <<pc, op, token, lexers, result>>

RenderDocument ==
    /\ Ready
    /\ \E tok \in Documents, lx \in LexersFor({"yaml", "python"}) :
           Called("render_document", tok, lx,
                  render_document(self[1], tok, Env(lx)))

RenderBlockCode ==
    /\ Ready
    /\ \E tok \in CodeFences :
        \E lx \in LexersFor({tok.language}) :
           Called("render_block_code", tok, lx,
                  render_block_code(self[1], tok, Env(lx)))

RenderCodeFence ==
    /\ Ready
    /\ \E tok \in CodeFences :
        \E lx \in LexersFor({tok.language}) :
           Called("render_code_fence", tok, lx,
                  render_code_fence(self[1], tok, Env(lx)))

RenderFrontMatter ==
    /\ Ready
    /\ \E c \in TokenTexts, lx \in LexersFor({"yaml"}) :
           Called("render_front_matter", FrontMatter(c), lx,
                  render_front_matter(self[1], FrontMatter(c), Env(lx)))

RenderLineComment ==
    /\ Ready
    /\ \E tok \in LineComments :
           Called("render_line_comment", tok, {},
                  render_line_comment(self[1], tok, Env({})))

RenderBlockBreak ==
    /\ Ready
    /\ \E c \in TokenTexts :
           Called("render_block_break", BlockBreak(c), {},
                  render_block_break(self[1], BlockBreak(c), Env({})))

RenderTarget ==
    /\ Ready
    /\ \E t \in TokenTexts :
           Called("render_target", Target(t), {},
                  render_target(self[1], Target(t), Env({})))

RenderRole ==
    /\ Ready
    /\ \E n \in RoleNames, c \in TokenTexts :
           Called("render_role", Role(n, c), {},
                  render_role(self[1], Role(n, c), Env({})))

RenderMath ==
    /\ Ready
    /\ \E c \in MathTexts :
           Called("render_math", Math(c), {},
                  render_math(self[1], Math(c), Env({})))

\* the caller takes the result; the renderer is ready for the next call
Return ==
    /\ pc = "done"
    /\ pc' = "idle"
    /\ op' = ""
    /\ token' = None
    /\ lexers' = {}
    /\ result' = Ok("", <<>>)
    /\ UNCHANGED <<html_charref, self>>

Next ==
    \/ Construct
    \/ RenderDocument
    \/ RenderBlockCode
    \/ RenderCodeFence
    \/ RenderFrontMatter
    \/ RenderLineComment
    \/ RenderBlockBreak
    \/ RenderTarget
    \/ RenderRole
    \/ RenderMath
    \/ Return

Spec == Init /\ [][Next]_vars

(***************************************************************************)
(* The properties checked.                                                 *)
(***************************************************************************)
Done(name) == pc = "done" /\ op = name

Returned == result.exc = "none"

Emits(open, text, close) == Contains(open \o text \o close, result.html)

\* the text of s between the first `open` and the first `close` after it
Between(s, open, close) ==
    LET from == FindFrom(open, s, 1) + Len(open)
    IN  SubSeq(s, from, FindFrom(close, s, from) - 1)

endswith(s, p) ==
    Len(s) >= Len(p) /\ SubSeq(s, Len(s) - Len(p) + 1, Len(s)) = p

Calls(name) == \E i \in 1..Len(result.calls) : result.calls[i] = name

\* C1: render_code_fence goes to render_directive exactly when the language
\* tag is non-empty and begins with "{", and to render_block_code in every
\* other case, whatever the content; the directive shell carries the tag as
\* the name and the arguments as the arguments.
CodeFenceDispatch ==
    Done("render_code_fence") =>
        /\ (Len(token[1].language) > 0 /\ CharAt(token[1].language, 1) = "{")
               <=> result.calls[2] = "render_directive"
        /\ ~(Len(token[1].language) > 0 /\ CharAt(token[1].language, 1) = "{")
               <=> result.calls[2] = "render_block_code"
        /\ result.calls[2] = "render_directive" =>
               /\ Returned
               /\ startswith(result.html, "<div class=\"myst-directive\">")
               /\ Emits("<span class=\"myst-dir-name\">", token[1].language,
                        "</span>")
               /\ Emits("<span class=\"myst-dir-args\">", token[1].arguments,
                        "</span>")

\* C1 witness: the fence tagged "{name}" with arguments "arg" was rendered as
\* a directive.
CodeFenceDispatchWitness ==
    /\ Done("render_code_fence")
    /\ token[1].language = "{name}"
    /\ token[1].arguments = "arg"
    /\ result.calls = <<"render_code_fence", "render_directive">>
    /\ Emits("<span class=\"myst-dir-name\">", "{name}", "</span>")

\* C2, as claimed: no call of a fragment rule on a well-formed token fails,
\* whether the highlighting capability finds the language or not.
RulesAreTotal == pc = "done" => Returned

\* C3: render_block_code returns the plain <pre><code> rendering when the
\* token has no language, use_pygments is off, or the language is not found,
\* and the highlighted output in its highlight-{language} div otherwise; the
\* capability is not called in the first two cases.
BlockCodeFallback ==
    Done("render_block_code") =>
        /\ Returned
        /\ (token[1].language = "" \/ ~self[1].use_pygments) =>
               /\ ~Calls("pygments_highlight")
               /\ result.html = super_render_block_code(token[1], Env(lexers))
        /\ (token[1].language # "" /\ self[1].use_pygments) =>
               /\ Calls("pygments_highlight")
               /\ token[1].language \notin lexers =>
                      result.html = super_render_block_code(token[1], Env(lexers))
               /\ token[1].language \in lexers =>
                      result.html =
                          "<div class=\"highlight-" \o token[1].language
                              \o "\">\n"
                              \o rstrip(highlight(token[1].children[1].content))
                              \o "\n</div>"

\* C3 witness: highlighting is on, the token declares a language the
\* capability does not find, and the plain rendering came back.
BlockCodeFallbackWitness ==
    /\ Done("render_block_code")
    /\ self[1].use_pygments
    /\ token[1].language = "python"
    /\ "python" \notin lexers
    /\ Calls("pygments_highlight")
    /\ startswith(result.html, "<pre><code class=\"language-python\">")

\* the render of the same tree by the same renderer with as_standalone off
AsFragment ==
    render_document([self[1] EXCEPT !.as_standalone = FALSE], token[1],
                    Env(lexers))

StandaloneDone == Done("render_document") /\ self[1].as_standalone

\* C4, as claimed: a standalone output holds exactly one <style> and exactly
\* one <body>, and what is between <body> and </body> equals the output of
\* the same render with as_standalone off.
StandaloneBodyIsFragment ==
    (StandaloneDone /\ Returned) =>
        /\ Count("<style>", result.html) = 1
        /\ Count("<body>", result.html) = 1
        /\ Between(result.html, "<body>", "</body>") = AsFragment.html

\* C4, amended: a standalone render fails exactly when the same render with
\* as_standalone off fails; otherwise its output is the page template, whose
\* body element holds a line break, the output of the render with
\* as_standalone off, and a line break, and which adds one <style> and one
\* <body> to those the rendered fragment holds itself.
StandalonePageAroundFragment ==
    StandaloneDone =>
        LET fragment == AsFragment
        IN  /\ result.exc = fragment.exc
            /\ Returned =>
                   /\ startswith(result.html, "<!DOCTYPE html>\n")
                   /\ endswith(result.html,
                               "</head>\n<body>\n" \o fragment.html
                                   \o "\n</body>\n</html>\n")
                   /\ Count("<style>", result.html)
                          = 1 + Count("<style>", fragment.html)
                   /\ Count("<body>", result.html)
                          = 1 + Count("<body>", fragment.html)

\* C4 witness: a standalone page around a directive whose raw content is
\* itself a <body> tag.
StandalonePageWitness ==
    /\ StandaloneDone
    /\ Returned
    /\ Len(token[1].children) = 2
    /\ Count("<body>", result.html) = 2
    /\ Contains("<body>\n<div class=\"myst-directive\">", result.html)

\* C5: render_document fails only as the inherited document rule fails; its
\* body is the children's renders followed by the script reference when
\* add_mathjax is on, and without it when off; with as_standalone off the
\* body is returned as it is and no CSS is loaded.
MathjaxAfterBody ==
    Done("render_document") =>
        LET children == super_render_document(self[1], token[1], Env(lexers))
            body == children.html \o (IF self[1].add_mathjax THEN MATHJAX ELSE "")
        IN  /\ result.exc = children.exc
            /\ (Returned /\ ~self[1].as_standalone) =>
                   /\ result.html = body
                   /\ ~Calls("get_syntax_css")
                   /\ ~Calls("get_pygments_css")
                   /\ ~Calls("minimal_html_page")
            /\ (Returned /\ self[1].as_standalone) =>
                   endswith(result.html,
                            "</head>\n<body>\n" \o body \o "\n</body>\n</html>\n")
            /\ (Returned /\ self[1].add_mathjax) =>
                   Count(MATHJAX, result.html) = 1
            /\ (Returned /\ ~self[1].add_mathjax) =>
                   ~Contains("<script", result.html)

\* C5 witness: a fragment of two children with the script reference at its
\* very end.
MathjaxAfterBodyWitness ==
    /\ Done("render_document")
    /\ Returned
    /\ self[1].add_mathjax
    /\ ~self[1].as_standalone
    /\ Len(token[1].children) = 2
    /\ endswith(result.html, "x &lt; 1</code></pre>\n" \o MATHJAX)

\* C6: the CSS of a standalone page is the custom CSS if given, else the
\* bundled stylesheet, followed when use_pygments is on, and only then, by
\* the custom pygments CSS if given, else the generated style rules; the
\* stylesheet and the style rules are loaded only when they are used.
StandaloneCss ==
    (StandaloneDone /\ Returned) =>
        /\ startswith(result.html,
                      "<!DOCTYPE html>\n<html lang=\"en\">\n\n<head>\n"
                          \o "<meta charset=\"utf-8\">\n"
                          \o "<title>Standalone HTML</title>\n"
                          \o "<style>\n"
                          \o (IF self[1].myst_css = None THEN get_syntax_css
                              ELSE self[1].myst_css[1])
                          \o (IF ~self[1].use_pygments THEN ""
                              ELSE IF self[1].pygments_css = None
                                   THEN get_pygments_css
                                   ELSE self[1].pygments_css[1])
                          \o "\n</style>\n</head>\n<body>\n")
        /\ Calls("get_syntax_css") <=> self[1].myst_css = None
        /\ Calls("get_pygments_css")
               <=> (self[1].use_pygments /\ self[1].pygments_css = None)
        /\ ~self[1].use_pygments =>
               /\ ~Contains(get_pygments_css, result.html)
               /\ ~Contains(CustomPygmentsCss, result.html)

\* C6 witness: a custom pygments CSS was given, use_pygments is off, and the
\* page holds the bundled stylesheet alone.
StandaloneCssWitness ==
    /\ StandaloneDone
    /\ Returned
    /\ ~self[1].use_pygments
    /\ self[1].pygments_css = Some(CustomPygmentsCss)
    /\ self[1].myst_css = None
    /\ Contains("<style>\n" \o get_syntax_css \o "\n</style>", result.html)

LineCommentShow ==
    Done("render_line_comment") =>
        /\ Returned
        /\ ~self[1].show_comments =>
               /\ result.html
                      = "<!-- " \o escape_html(html_charref, token[1].content)
                            \o " -->"
               /\ ~Contains("%", result.html)
        /\ self[1].show_comments =>
               /\ result.html
                      = "<div class=\"myst-block-comment\"><p>"
                            \o escape_html(html_charref, token[1].raw)
                            \o "</p></div>"
               /\ Contains("<p>%", result.html)

\* C8 witness: a shown comment whose line holds text to escape.
LineCommentShowWitness ==
    /\ Done("render_line_comment")
    /\ self[1].show_comments
    /\ token[1].raw = "% &"
    /\ result.html = "<div class=\"myst-block-comment\"><p>% &amp;</p></div>"

Escaped(text) == escape_html(html_charref, text)

IsDirective ==
    /\ Done("render_code_fence")
    /\ Len(result.calls) >= 2
    /\ result.calls[2] = "render_directive"

\* what the rules other than the directive and role rules emit: each text
\* field escaped once
EscapedOnceElsewhere ==
    /\ Done("render_line_comment") =>
           IF self[1].show_comments
           THEN Emits("<p>", Escaped(token[1].raw), "</p>")
           ELSE Emits("<!-- ", Escaped(token[1].content), " -->")
    /\ Done("render_block_break") =>
           Emits("<!-- myst-block-data ", Escaped(token[1].content), " -->")
    /\ Done("render_target") =>
           /\ Emits("href=\"#", Escaped(token[1].target), "\" title=")
           /\ Emits(">(", Escaped(token[1].target), ")=</a>")
    /\ Done("render_math") =>
           result.html \in {Escaped(token[1].content),
                            "$" \o Escaped(token[1].content) \o "$"}
    /\ (Done("render_front_matter") /\ self[1].show_front_matter
            /\ ~self[1].use_pygments) =>
           Emits("<pre><code class=\"language-yaml\">",
                 Escaped(token[1].content), "</code></pre>")

\* C10, as claimed: every token text field a fragment rule emits is emitted
\* HTML-escaped, once.
EveryFieldEscapedOnce ==
    /\ EscapedOnceElsewhere
    /\ Done("render_role") =>
           /\ Emits("<span class=\"myst-role-name\">{", Escaped(token[1].name),
                    "}</span>")
           /\ Emits("&#39;", Escaped(token[1].children[1].content), "&#39;")
    /\ IsDirective =>
           /\ Emits("<span class=\"myst-dir-name\">",
                    Escaped(token[1].language), "</span>")
           /\ Emits("<span class=\"myst-dir-args\">",
                    Escaped(token[1].arguments), "</span>")
           /\ Emits("<pre><code>", Escaped(token[1].children[1].content),
                    "</code></pre>")

\* C10, amended: the line-comment, block-break, target, math and plain
\* front-matter rules and the role rule for its content emit their text
\* escaped once, so that & comes out as &amp; and &amp; as &amp;, never as
\* &amp;amp;; the directive rule emits its name, arguments and content, and
\* the role rule its name, as they are, not escaped.
FieldsEscapedAtMostOnce ==
    /\ EscapedOnceElsewhere
    /\ Done("render_role") =>
           /\ Emits("<span class=\"myst-role-name\">{", token[1].name,
                    "}</span>")
           /\ Emits("&#39;", Escaped(token[1].children[1].content), "&#39;")
    /\ IsDirective =>
           /\ Emits("<span class=\"myst-dir-name\">", token[1].language,
                    "</span>")
           /\ Emits("<span class=\"myst-dir-args\">", token[1].arguments,
                    "</span>")
           /\ Emits("<pre><code>", token[1].children[1].content,
                    "</code></pre>")
    /\ (Done("render_target") /\ token[1].target \in {"&", "&amp;"}) =>
           /\ Emits("href=\"#", "&amp;", "\" title=")
           /\ ~Contains("&amp;amp;", result.html)

\* C10 witness: a target that reads &amp; was rendered, and reads &amp; in
\* the output.
FieldsEscapedWitness ==
    /\ Done("render_target")
    /\ token[1].target = "&amp;"
    /\ Emits("href=\"#", "&amp;", "\" title=")

====
